---- MODULE Spec2Model ----
(***************************************************************************)
(* A model of the FTP deployment run of src/index.js: run() and the        *)
(* functions it calls (cleanupRemoteDirectory, uploadFiles,                *)
(* uploadWithRetry, uploadIndexFile).  Every await of the code is a        *)
(* position of the single control flow (pc); the FTP server and the local  *)
(* file system are the environment, whose answers are drawn with \E.       *)
(*                                                                         *)
(* A path is a sequence of name components: "sub/b.txt" is                 *)
(* <<"sub", "b.txt">>.  The empty sequence stands for JavaScript's         *)
(* undefined where the code holds a path or nothing.                       *)
(***************************************************************************)
EXTENDS Integers, Sequences, FiniteSets, TLC

\* ------------------------------------------------------------- bounds
\* Number of components of the configured remote root (ftp-remote-dir).
RootDepth == 1
\* Cap on the sockets a failed createFTPClient may leave open.
MaxOrphans == 1
\* Cap on the faults (a failed upload attempt on an open connection, a failed
\* reconnect, a local file gone) the environment injects into a run that is
\* started under a fault budget.
MaxFaults == 2

\* ---------------------------------------------------- program constants
maxRetries == 3
KeepAliveEvery == 10
KeepAliveAfterMs == 30000

\* The value of a path variable that holds undefined.
NoPath == <<>>

\* The name find() looks for at line 180.
IndexName == <<"index.html">>

\* ----------------------------------------------------------- the inputs
\* The order in which fs.readdirSync and client.list() report names.
DirOrder == <<".htaccess", "a.txt", "b.txt", "f01", "f02", "f03", "f04",
              "f05", "f06", "f07", "f08", "f09", "f10", "index.html",
              "keep.dat", "old.txt", "sub", "uploads">>

\* The local build trees a run is started on (the regular files in them).
LocalTrees ==
  { { <<"a.txt">>, <<"index.html">>, <<"sub", "b.txt">> },
    { <<"sub", "b.txt">>, <<"sub", "index.html">> },
    { <<"index.html">>, <<"sub", "index.html">>, <<"uploads", "keep.dat">> } }

\* A build tree with more than KeepAliveEvery non-entry files.
KeepAliveTree ==
  { <<"f01">>, <<"f02">>, <<"f03">>, <<"f04">>, <<"f05">>, <<"f06">>,
    <<"f07">>, <<"f08">>, <<"f09">>, <<"f10">>, <<"index.html">>,
    <<"sub", "b.txt">> }

\* The exclusion lists a run is configured with (after parseExclusions).
ExclusionLists ==
  { {},
    { <<".htaccess">>, <<"uploads">> },
    { <<"uploads", "keep.dat">> } }

\* The remote root's contents before the run: [files, dirs].
RemoteStates ==
  { [files |-> {}, dirs |-> {}],
    [files |-> { <<"old.txt">>, <<".htaccess">> }, dirs |-> {}],
    [files |-> { <<"index.html">>, <<"sub", "b.txt">>,
                 <<"uploads", "keep.dat">> },
     dirs  |-> { <<"sub">>, <<"uploads">> }] }

\* The connection parameters of ftpConfig (lines 279-286).
ftpConfig == [server |-> "host", port |-> 21, username |-> "user",
              password |-> "secret", secure |-> TRUE]

\* The errors an FTP operation can throw: what its message includes and its
\* code (0: none).
Errors ==
  { [message |-> "ECONNRESET", code |-> 0],
    [message |-> "closed",     code |-> 0],
    [message |-> "Timeout",    code |-> 0],
    [message |-> "QUIT",       code |-> 0],
    [message |-> "other",      code |-> 421],
    [message |-> "other",      code |-> 550] }

NoError == [message |-> "", code |-> 0]

\* What basic-ftp throws for any operation on a client after close().
ClosedError == [message |-> "closed", code |-> 0]

\* What Date.now() - lastKeepAlive can be at line 222, in ms, as far as the
\* test can tell values apart: none, the threshold, more than the threshold.
\* The uploads and waits between two readings take any time.
ClockValues == {0, KeepAliveAfterMs, KeepAliveAfterMs + 1}

\* --------------------------------------------------------- path helpers
IsPrefix(p, q) ==
  /\ Len(p) <= Len(q)
  /\ SubSeq(q, 1, Len(p)) = p

Parent(p) == SubSeq(p, 1, Len(p) - 1)

\* ------------------------------------------------------- pure functions
\* A matcher that protects nothing.
shouldExcludeNever(itemName, exclusions) == FALSE

\* shouldExclude, lines 13-17: equal to a rule, or beginning with rule + "/".
shouldExclude(itemName, exclusions) ==
  \E exclusion \in exclusions :
    \/ itemName = exclusion
    \/ /\ Len(exclusion) < Len(itemName)
       /\ IsPrefix(exclusion, itemName)

\* fs.readdirSync(dirPath) on the tree whose regular files are tree.
readdirSync(dirPath, tree) ==
  SelectSeq(DirOrder,
            LAMBDA n : \E f \in tree : IsPrefix(dirPath \o <<n>>, f))

\* fs.statSync(filePath).isDirectory()
isDirectory(filePath, tree) ==
  \E f \in tree : IsPrefix(filePath, f) /\ Len(filePath) < Len(f)

RECURSIVE getAllFiles(_, _, _, _)
RECURSIVE forEachFile(_, _, _, _, _)

\* The forEach callback of getAllFiles (lines 22-37) over the names left.
forEachFile(names, dirPath, arrayOfFiles, exclusions, tree) ==
  IF names = <<>> THEN arrayOfFiles
  ELSE LET relativePath == dirPath \o <<Head(names)>>
           next ==
             IF shouldExclude(relativePath, exclusions) THEN arrayOfFiles
             ELSE IF isDirectory(relativePath, tree)
                  THEN getAllFiles(relativePath, arrayOfFiles, exclusions, tree)
                  ELSE Append(arrayOfFiles, relativePath)
       IN forEachFile(Tail(names), dirPath, next, exclusions, tree)

\* getAllFiles, lines 19-40 (dirPath is given relative to baseDir).
getAllFiles(dirPath, arrayOfFiles, exclusions, tree) ==
  forEachFile(readdirSync(dirPath, tree), dirPath, arrayOfFiles, exclusions, tree)

Range(s) == { s[i] : i \in 1..Len(s) }

\* A callback that stats every name of the directory, excluded or not.
statSyncReachedAll(dirPath, exclusions, tree) ==
  { dirPath \o <<n>> : n \in Range(readdirSync(dirPath, tree)) }

\* The paths of one readdirSync for which the callback reaches fs.statSync
\* (line 30): those the return of lines 26-28 did not stop.
statSyncReached(dirPath, exclusions, tree) ==
  { p \in { dirPath \o <<n>> : n \in Range(readdirSync(dirPath, tree)) } :
      ~shouldExclude(p, exclusions) }

RECURSIVE statSyncCalls(_, _, _)
\* Every path fs.statSync is called on by getAllFiles(dirPath) and the calls
\* it makes at line 33.
statSyncCalls(dirPath, exclusions, tree) ==
  LET reached == statSyncReached(dirPath, exclusions, tree)
  IN reached \cup
     UNION { statSyncCalls(p, exclusions, tree) :
               p \in { q \in reached : isDirectory(q, tree) } }

\* Every directory fs.readdirSync is called on (line 20): the scan root and
\* each directory line 33 descends into.
readdirSyncCalls(dirPath, exclusions, tree) ==
  {dirPath} \cup
  { p \in statSyncCalls(dirPath, exclusions, tree) : isDirectory(p, tree) }

\* A find that takes the first file named index.html in any directory.
findIndexFileAnyDir(fs) ==
  IF \E i \in 1..Len(fs) : fs[i][Len(fs[i])] = "index.html"
  THEN LET i == CHOOSE i \in 1..Len(fs) :
                  /\ fs[i][Len(fs[i])] = "index.html"
                  /\ \A j \in 1..(i - 1) : fs[j][Len(fs[j])] # "index.html"
       IN fs[i]
  ELSE NoPath

\* files.find(f => f === 'index.html' ...), line 180.
findIndexFile(fs) ==
  IF \E i \in 1..Len(fs) : fs[i] = IndexName THEN IndexName ELSE NoPath

\* A filter that drops every file named index.html, in any directory.
otherFilesNotNamedIndex(fs, idx) ==
  SelectSeq(fs, LAMBDA f : f[Len(f)] # "index.html")

\* files.filter(f => f !== indexFile), line 181.
otherFilesOf(fs, idx) == SelectSeq(fs, LAMBDA f : f # idx)

\* uploadFiles called with excludeIndex false.
excludeIndexFalse == FALSE

\* The excludeIndex argument run() passes to uploadFiles, line 311.
excludeIndex == TRUE

\* An uploadFiles that uploads every file of the scan in its loop.
filesToUploadAll(fs, idx) == fs

\* filesToUpload, line 182.
filesToUploadOf(fs, idx) == IF excludeIndex THEN otherFilesOf(fs, idx) ELSE fs

RECURSIVE allDirsWithRepeats(_, _)
\* A list of parent directories, one entry per file, in place of the Set.
allDirsWithRepeats(fs, acc) ==
  IF fs = <<>> THEN acc
  ELSE LET dir == Parent(Head(fs))
       IN allDirsWithRepeats(Tail(fs),
                             IF dir # <<>> THEN Append(acc, dir) ELSE acc)

RECURSIVE allDirsOf(_, _)
\* The Set allDirs in insertion order, lines 190-196.
allDirsOf(fs, acc) ==
  IF fs = <<>> THEN acc
  ELSE LET dir == Parent(Head(fs))
       IN allDirsOf(Tail(fs),
                    IF dir # <<>> /\ dir \notin Range(acc)
                    THEN Append(acc, dir) ELSE acc)

\* A classification that does not know the message of a closed client.
isConnectionErrorNotClosed(error) ==
  \/ error.message = "ECONNRESET"
  \/ error.message = "Timeout"
  \/ error.message = "QUIT"
  \/ error.code = 421

\* isConnectionError, lines 142-147.
isConnectionError(error) ==
  \/ error.message = "ECONNRESET"
  \/ error.message = "closed"
  \/ error.message = "Timeout"
  \/ error.message = "QUIT"
  \/ error.code = 421

\* A retry condition that does not look at the class of the error.
shouldRetryAnyError(error, n) == n < maxRetries

\* The condition of line 149.
shouldRetry(error, n) == isConnectionError(error) /\ n < maxRetries


\* The parameters run() connects with at line 302.
accessParams == [server |-> "host", port |-> 21, username |-> "user",
                 password |-> "secret", secure |-> TRUE]

\* A reconnect that drops the secure flag.
reconnectParamsInsecure == [ftpConfig EXCEPT !.secure = FALSE]

\* The parameters uploadWithRetry reconnects with, lines 158-164.
reconnectParams ==
  [server |-> ftpConfig.server, port |-> ftpConfig.port,
   username |-> ftpConfig.username, password |-> ftpConfig.password,
   secure |-> ftpConfig.secure]

\* A cleanup that deletes directories with the file primitive.
deleteOpAlwaysRemove(item) == "remove"

\* The delete primitive cleanup picks for a listed item, lines 59-65.
deleteOp(item) == IF item.isDirectory THEN "removeDir" ELSE "remove"

\* A cleanup whose delete errors reach the outer catch of line 72.
onDeleteErrorThrow == "throw"

\* The catch of lines 66-68 warns and lets the loop go on.
onDeleteError == "continue"

\* A run() that goes on to connect whether or not the build directory exists.
buildDirFoundAlways(exists) == TRUE

\* The test of line 297 on what fs.existsSync(buildDir) returned.
buildDirFound(exists) == exists

\* The test of line 222 on Date.now() - lastKeepAlive.
keepAliveDue(elapsed) == elapsed > KeepAliveAfterMs

\* A keepAlive without its try/catch: the error of NOOP reaches the caller.
onKeepAliveErrorThrow == "throw"

\* The catch of lines 127-129 ignores the error of NOOP.
onKeepAliveError == "ignore"

\* A bulk loop without the try/catch around uploadWithRetry.
onBulkUploadErrorThrow == "throw"

\* The catch of lines 237-239 warns and lets the loop go on.
onBulkUploadError == "continue"

\* An uploadIndexFile that only warns, as the bulk loop does.
onIndexUploadErrorContinue == "continue"

\* The catch of lines 259-261 rethrows.
onIndexUploadError == "throw"

\* ------------------------------------------------------------ the state
VARIABLES
  pc,            \* position of run()
  buildDirExists,\* fs.existsSync(buildDir) at line 297
  local,         \* the regular files of the local build tree
  exclusions,    \* the parsed exclusion list
  remoteFiles,   \* files under the remote root
  remoteDirs,    \* directories under the remote root
  client,        \* "null", "open" or "closed": the client of run()
  connCfg,       \* the parameters the client's connection was opened with
  cwd,           \* components of the remote root entered; 0: login directory
  orphans,       \* sockets opened by a failed createFTPClient, still open
  failCause,     \* "none", or what threw into the catch of line 319
  outcome,       \* "running", "Done" or "Failed"
  ensureIdx,     \* ensureRemoteDir: the component being entered
  list,          \* cleanup: the listing of line 48
  listIdx,       \* cleanup: the item of the loop of line 52
  delCount,      \* per top-level name, the deletes issued for it
  delKind,       \* per top-level name, the last delete primitive used
  delFailed,     \* the names whose delete threw
  removed,       \* the remote files the deletes of cleanup removed
  scanned,       \* getAllFiles has returned
  statted,       \* the paths the scan called fs.statSync on
  readDirs,      \* the directories the scan called fs.readdirSync on
  files,         \* uploadFiles: files
  indexFile,     \* uploadFiles: indexFile (NoPath: undefined)
  filesToUpload, \* uploadFiles: filesToUpload
  allDirs,       \* uploadFiles: allDirs, in insertion order
  dirIdx,        \* the directory of the loop of line 199
  fileIdx,       \* the file of the loop of line 210
  fileCount,     \* uploadFiles: fileCount
  kaSent,        \* why keepAlive ran in this iteration of the loop of line 210
  kaFailed,      \* the keepalives of this iteration whose NOOP threw
  sinceKeepAlive,\* Date.now() - lastKeepAlive as read at line 222
  faults,        \* the fault budget: [limited, left]
  phase,         \* "none", "bulk" (uploadFiles) or "index" (uploadIndexFile)
  cur,           \* uploadWithRetry: the file being uploaded
  attempt,       \* uploadWithRetry: attempt
  tried,         \* upload attempts issued by this call of uploadWithRetry
  reconnects,    \* reconnects begun by this call of uploadWithRetry
  lastError,     \* uploadWithRetry: lastError; after the call, what line 168 threw
  thrown,        \* the error the last call of uploadWithRetry threw
  uploadCount,   \* per path, its successful uploads
  failedSet,     \* files whose upload failure was warned about (line 238)
  skippedSet,    \* files skipped as locally missing (line 217)
  indexStarted,  \* an upload of index.html at the root has been issued
  entryOps       \* attempts and reconnects issued by uploadIndexFile

vars == <<pc, buildDirExists, local, exclusions, remoteFiles, remoteDirs,
          client, connCfg, cwd, orphans, failCause, outcome, ensureIdx,
          list, listIdx, delCount, delKind, delFailed, removed, scanned,
          statted, readDirs, files, indexFile, filesToUpload, allDirs,
          dirIdx, fileIdx, fileCount, kaSent, kaFailed, sinceKeepAlive,
          faults, phase, cur, attempt, tried, reconnects, lastError, thrown,
          uploadCount, failedSet, skippedSet, indexStarted, entryOps>>

inputVars == <<buildDirExists, local, exclusions>>
remoteVars == <<remoteFiles, remoteDirs>>
connVars == <<client, connCfg, cwd, orphans>>
cleanupVars == <<list, listIdx, delCount, delKind, delFailed, removed>>
scanVars == <<scanned, statted, readDirs, files, indexFile, filesToUpload,
              allDirs>>
loopVars == <<dirIdx, fileIdx, fileCount, kaSent, kaFailed,
              sinceKeepAlive>>
retryVars == <<phase, cur, attempt, tried, reconnects, lastError, thrown>>
historyVars == <<uploadCount, failedSet, skippedSet, indexStarted, entryOps>>

TopNames == Range(DirOrder)

AllPaths ==
  UNION LocalTrees \cup KeepAliveTree \cup
  UNION { r.files : r \in RemoteStates }

\* The state run() starts in, on one of the given trees, exclusion lists
\* and remote states, with or without a fault budget.
Start(trees, lists, remotes, limited) ==
  /\ pc = "start"
  /\ buildDirExists \in BOOLEAN
  /\ local \in trees
  /\ exclusions \in lists
  /\ \E r \in remotes : remoteFiles = r.files /\ remoteDirs = r.dirs
  /\ faults = [limited |-> limited, left |-> IF limited THEN MaxFaults ELSE 0]
  /\ client = "null"
  /\ connCfg = [server |-> "", port |-> 0, username |-> "",
                password |-> "", secure |-> FALSE]
  /\ cwd = 0
  /\ orphans = 0
  /\ failCause = "none"
  /\ outcome = "running"
  /\ ensureIdx = 1
  /\ list = <<>>
  /\ listIdx = 1
  /\ delCount = [n \in TopNames |-> 0]
  /\ delKind = [n \in TopNames |-> "none"]
  /\ delFailed = {}
  /\ removed = {}
  /\ scanned = FALSE
  /\ statted = {}
  /\ readDirs = {}
  /\ files = <<>>
  /\ indexFile = NoPath
  /\ filesToUpload = <<>>
  /\ allDirs = <<>>
  /\ dirIdx = 1
  /\ fileIdx = 1
  /\ fileCount = 0
  /\ kaSent = {}
  /\ kaFailed = {}
  /\ sinceKeepAlive = 0
  /\ phase = "none"
  /\ cur = NoPath
  /\ attempt = 0
  /\ tried = 0
  /\ reconnects = 0
  /\ lastError = NoError
  /\ thrown = NoError
  /\ uploadCount = [p \in AllPaths |-> 0]
  /\ failedSet = {}
  /\ skippedSet = {}
  /\ indexStarted = FALSE
  /\ entryOps = 0

Init == Start(LocalTrees, ExclusionLists, RemoteStates, FALSE)

\* A run on the tree with more than KeepAliveEvery files, or on a small tree
\* without index.html, under the fault budget.
InitKeepAlive ==
  Start({ KeepAliveTree, { <<"sub", "b.txt">>, <<"sub", "index.html">> } },
        { { <<".htaccess">>, <<"uploads">> } },
        { [files |-> { <<"old.txt">>, <<".htaccess">> }, dirs |-> {}] },
        TRUE)

\* The environment may inject one more fault.
CanFault == ~faults.limited \/ faults.left > 0

\* The environment injects a fault.
Fault ==
  faults' = IF faults.limited THEN [faults EXCEPT !.left = @ - 1] ELSE faults

\* An error reaches the catch of line 319: setFailed, then the finally block.
Fail(cause) ==
  /\ failCause' = cause
  /\ pc' = "finally"

\* A failed createFTPClient may leave the socket of its new Client open:
\* nothing closes the Client that access() rejected.
Leak(leak) ==
  orphans' = IF leak /\ orphans < MaxOrphans THEN orphans + 1 ELSE orphans

\* ------------------------------------------------- run(), lines 264-329
\* Lines 297-299: the build directory must exist.
CheckBuildDir ==
  /\ pc = "start"
  /\ IF buildDirFound(buildDirExists)
     THEN pc' = "connect" /\ UNCHANGED failCause
     ELSE Fail("builddir")
  /\ UNCHANGED <<inputVars, faults, remoteVars, connVars, outcome, ensureIdx,
                 cleanupVars, scanVars, loopVars, retryVars, historyVars>>

\* Line 302: createFTPClient returns the connected client.
ConnectOk ==
  /\ pc = "connect"
  /\ client' = "open"
  /\ connCfg' = accessParams
  /\ cwd' = 0
  /\ pc' = "ensure"
  /\ UNCHANGED <<inputVars, faults, remoteVars, orphans, failCause, outcome, ensureIdx,
                 cleanupVars, scanVars, loopVars, retryVars, historyVars>>

\* Line 302: access() rejects; client stays null.
ConnectFails ==
  /\ pc = "connect"
  /\ \E leak \in BOOLEAN : Leak(leak)
  /\ Fail("connect")
  /\ UNCHANGED <<inputVars, faults, remoteVars, client, connCfg, cwd, outcome,
                 ensureIdx, cleanupVars, scanVars, loopVars, retryVars,
                 historyVars>>

\* ensureRemoteDir, lines 77-89: one component of the remote root. The
\* component is entered (cd), or cd throws and ensureDir creates and enters
\* it, or ensureDir throws too.
EnsureRemoteDirStep ==
  /\ pc = "ensure"
  /\ \E r \in {"entered", "created", "failed"} :
       IF r = "failed"
       THEN /\ Fail("ensure")
            /\ UNCHANGED <<cwd, ensureIdx>>
       ELSE /\ cwd' = ensureIdx
            /\ ensureIdx' = ensureIdx + 1
            /\ pc' = IF ensureIdx = RootDepth THEN "cleanup_cd" ELSE "ensure"
            /\ UNCHANGED failCause
  /\ UNCHANGED <<inputVars, faults, remoteVars, client, connCfg, orphans, outcome,
                 cleanupVars, scanVars, loopVars, retryVars, historyVars>>

\* ------------------------------- cleanupRemoteDirectory, lines 42-75
\* client.list() of the remote root: its top-level children.
ListingOf(fs, ds) ==
  LET present == SelectSeq(DirOrder,
                           LAMBDA n : \E p \in fs \cup ds : p[1] = n)
  IN [i \in 1..Len(present) |->
        [name |-> present[i], isDirectory |-> <<present[i]>> \in ds]]

\* Line 46: client.cd(remoteDir).
CleanupCd ==
  /\ pc = "cleanup_cd"
  /\ \E ok \in BOOLEAN :
       IF ok
       THEN cwd' = RootDepth /\ pc' = "cleanup_list" /\ UNCHANGED failCause
       ELSE Fail("cleanup") /\ UNCHANGED cwd
  /\ UNCHANGED <<inputVars, faults, remoteVars, client, connCfg, orphans, outcome,
                 ensureIdx, cleanupVars, scanVars, loopVars, retryVars,
                 historyVars>>

\* Line 48: client.list().
CleanupList ==
  /\ pc = "cleanup_list"
  /\ \E ok \in BOOLEAN :
       IF ok
       THEN /\ list' = ListingOf(remoteFiles, remoteDirs)
            /\ listIdx' = 1
            /\ pc' = "cleanup_loop"
            /\ UNCHANGED failCause
       ELSE Fail("cleanup") /\ UNCHANGED <<list, listIdx>>
  /\ UNCHANGED <<inputVars, faults, remoteVars, connVars, outcome, ensureIdx,
                 delCount, delKind, delFailed, removed, scanVars, loopVars,
                 retryVars, historyVars>>

\* Lines 53-56: an excluded item is skipped.
CleanupSkip ==
  /\ pc = "cleanup_loop"
  /\ listIdx <= Len(list)
  /\ shouldExclude(<<list[listIdx].name>>, exclusions)
  /\ listIdx' = listIdx + 1
  /\ UNCHANGED <<pc, inputVars, faults, remoteVars, connVars, failCause, outcome,
                 ensureIdx, list, delCount, delKind, delFailed, removed,
                 scanVars, loopVars, retryVars, historyVars>>

\* Lines 58-65: the delete of a listed item succeeds. removeDir removes the
\* directory and everything beneath it, remove the one file.
CleanupDelete ==
  /\ pc = "cleanup_loop"
  /\ listIdx <= Len(list)
  /\ ~shouldExclude(<<list[listIdx].name>>, exclusions)
  /\ LET item == list[listIdx]
         op == deleteOp(item)
     IN /\ delCount' = [delCount EXCEPT ![item.name] = @ + 1]
        /\ delKind' = [delKind EXCEPT ![item.name] = op]
        \* the server refuses a remove of a directory, a removeDir of a file
        /\ op = "removeDir" <=> item.isDirectory
        /\ IF op = "removeDir"
           THEN /\ remoteFiles' = { p \in remoteFiles : p[1] # item.name }
                /\ remoteDirs' = { p \in remoteDirs : p[1] # item.name }
           ELSE /\ remoteFiles' = remoteFiles \ { <<item.name>> }
                /\ UNCHANGED remoteDirs
        /\ removed' = removed \cup (remoteFiles \ remoteFiles')
  /\ listIdx' = listIdx + 1
  /\ UNCHANGED <<pc, inputVars, faults, connVars, failCause, outcome, ensureIdx, list,
                 delFailed, scanVars, loopVars, retryVars, historyVars>>

\* Lines 58-68: the delete of a listed item throws; the item stays.
CleanupDeleteFails ==
  /\ pc = "cleanup_loop"
  /\ listIdx <= Len(list)
  /\ ~shouldExclude(<<list[listIdx].name>>, exclusions)
  /\ LET item == list[listIdx]
     IN /\ delCount' = [delCount EXCEPT ![item.name] = @ + 1]
        /\ delKind' = [delKind EXCEPT ![item.name] = deleteOp(item)]
        /\ delFailed' = delFailed \cup {item.name}
        /\ UNCHANGED removed
  /\ IF onDeleteError = "continue"
     THEN listIdx' = listIdx + 1 /\ UNCHANGED <<pc, failCause>>
     ELSE Fail("cleanup") /\ UNCHANGED listIdx
  /\ UNCHANGED <<inputVars, faults, remoteVars, connVars, outcome, ensureIdx, list,
                 scanVars, loopVars, retryVars, historyVars>>

\* Line 71: the loop is over; run() goes on to uploadFiles.
CleanupDone ==
  /\ pc = "cleanup_loop"
  /\ listIdx > Len(list)
  /\ pc' = "scan"
  /\ UNCHANGED <<inputVars, faults, remoteVars, connVars, failCause, outcome,
                 ensureIdx, cleanupVars, scanVars, loopVars, retryVars,
                 historyVars>>

\* ------------------------------------------ uploadFiles, lines 176-243
\* Lines 179-196: the scan and what uploadFiles derives from it. readdirSync
\* throws on a directory that does not exist.
Scan ==
  /\ pc = "scan"
  /\ buildDirExists
  /\ LET fs == getAllFiles(<<>>, <<>>, exclusions, local)
         idx == findIndexFile(fs)
     IN /\ files' = fs
        /\ indexFile' = idx
        /\ filesToUpload' = filesToUploadOf(fs, idx)
        /\ allDirs' = allDirsOf(filesToUploadOf(fs, idx), <<>>)
  /\ scanned' = TRUE
  /\ statted' = statSyncCalls(<<>>, exclusions, local)
  /\ readDirs' = readdirSyncCalls(<<>>, exclusions, local)
  /\ dirIdx' = 1
  /\ fileIdx' = 1
  /\ fileCount' = 0
  /\ phase' = "bulk"
  /\ pc' = "mkdirs"
  /\ UNCHANGED <<inputVars, faults, remoteVars, connVars, failCause, outcome,
                 ensureIdx, cleanupVars, kaSent, kaFailed, sinceKeepAlive, cur,
                 attempt, tried, reconnects, lastError, thrown, historyVars>>

\* Line 20: readdirSync throws (the build directory cannot be read).
ScanFails ==
  /\ pc = "scan"
  /\ Fail("scan")
  /\ UNCHANGED <<inputVars, faults, remoteVars, connVars, outcome, ensureIdx,
                 cleanupVars, scanVars, loopVars, retryVars, historyVars>>

\* The non-empty prefixes of a directory path, shortest first.
PrefixesOf(dir) == [i \in 1..Len(dir) |-> SubSeq(dir, 1, i)]

RECURSIVE mkdAll(_, _, _)
\* createDirectoryRecursive, lines 91-103, below the remote root: one MKD per
\* component; an MKD creates its directory when the server accepts it (accepted)
\* and the parent exists, and its error is ignored otherwise.
mkdAll(prefixes, ds, accepted) ==
  IF prefixes = <<>> THEN ds
  ELSE LET p == Head(prefixes)
           made == /\ p \in accepted
                   /\ Parent(p) = <<>> \/ Parent(p) \in ds
       IN mkdAll(Tail(prefixes), IF made THEN ds \cup {p} ELSE ds, accepted)

\* Lines 199-207: one directory of allDirs.
CreateDir ==
  /\ pc = "mkdirs"
  /\ dirIdx <= Len(allDirs)
  /\ \E accepted \in SUBSET Range(PrefixesOf(allDirs[dirIdx])) :
       remoteDirs' = mkdAll(PrefixesOf(allDirs[dirIdx]), remoteDirs,
                            IF client = "open" THEN accepted ELSE {})
  /\ dirIdx' = dirIdx + 1
  /\ UNCHANGED <<pc, inputVars, faults, remoteFiles, connVars, failCause,
                 outcome, ensureIdx, cleanupVars, scanVars, fileIdx, fileCount,
                 kaSent, kaFailed, sinceKeepAlive, retryVars, historyVars>>

\* The loop of line 199 is over.
CreateDirsDone ==
  /\ pc = "mkdirs"
  /\ dirIdx > Len(allDirs)
  /\ pc' = "bulk"
  /\ UNCHANGED <<inputVars, faults, remoteVars, connVars, failCause, outcome,
                 ensureIdx, cleanupVars, scanVars, loopVars, retryVars,
                 historyVars>>

\* Lines 216-219: the local file is gone; warn and continue.
BulkSkip ==
  /\ pc = "bulk"
  /\ fileIdx <= Len(filesToUpload)
  /\ CanFault
  /\ Fault
  /\ skippedSet' = skippedSet \cup {filesToUpload[fileIdx]}
  /\ fileIdx' = fileIdx + 1
  /\ UNCHANGED <<pc, inputVars, remoteVars, connVars, failCause, outcome,
                 ensureIdx, cleanupVars, scanVars, dirIdx, fileCount, kaSent,
                 kaFailed, sinceKeepAlive, retryVars, uploadCount, failedSet,
                 indexStarted, entryOps>>

\* The entry of uploadWithRetry (lines 132-135) for file f.
EnterUploadWithRetry(f) ==
  /\ cur' = f
  /\ attempt' = 1
  /\ tried' = 0
  /\ reconnects' = 0
  /\ lastError' = NoError
  /\ thrown' = NoError
  /\ pc' = "upload"

\* Lines 221-229: the keepalive when more than 30 s have passed since the
\* last one, then the call of uploadWithRetry. keepAlive is called outside the
\* try of line 227: an error it let through would leave uploadFiles.
BulkStart ==
  /\ pc = "bulk"
  /\ fileIdx <= Len(filesToUpload)
  /\ sinceKeepAlive' \in ClockValues
  /\ IF keepAliveDue(sinceKeepAlive')
     THEN \E ok \in BOOLEAN :
            /\ kaSent' = {"timer"}
            /\ kaFailed' = IF ok THEN {} ELSE {"timer"}
            /\ IF ok \/ onKeepAliveError = "ignore"
               THEN /\ EnterUploadWithRetry(filesToUpload[fileIdx])
                    /\ UNCHANGED failCause
               ELSE /\ Fail("upload")
                    /\ UNCHANGED <<cur, attempt, tried, reconnects, lastError,
                                   thrown>>
     ELSE /\ kaSent' = {}
          /\ kaFailed' = {}
          /\ EnterUploadWithRetry(filesToUpload[fileIdx])
          /\ UNCHANGED failCause
  /\ UNCHANGED <<inputVars, faults, remoteVars, connVars, outcome, ensureIdx,
                 cleanupVars, scanVars, dirIdx, fileIdx, fileCount, phase,
                 historyVars>>

\* Line 242: the loop is over; uploadFiles returns indexFile.
BulkDone ==
  /\ pc = "bulk"
  /\ fileIdx > Len(filesToUpload)
  /\ pc' = "index"
  /\ UNCHANGED <<inputVars, faults, remoteVars, connVars, failCause, outcome,
                 ensureIdx, cleanupVars, scanVars, loopVars, retryVars,
                 historyVars>>

\* -------------------------------------- uploadIndexFile, lines 245-262
\* Lines 246-249: no index file, nothing to do.
IndexAbsent ==
  /\ pc = "index"
  /\ indexFile = NoPath
  /\ pc' = "finally"
  /\ UNCHANGED <<inputVars, faults, remoteVars, connVars, failCause, outcome,
                 ensureIdx, cleanupVars, scanVars, loopVars, retryVars,
                 historyVars>>

\* Lines 251-257: the call of uploadWithRetry for the index file.
IndexStart ==
  /\ pc = "index"
  /\ indexFile # NoPath
  /\ phase' = "index"
  /\ EnterUploadWithRetry(indexFile)
  /\ UNCHANGED <<inputVars, faults, remoteVars, connVars, failCause, outcome,
                 ensureIdx, cleanupVars, scanVars, loopVars, historyVars>>

\* -------------------------------------- uploadWithRetry, lines 132-174
\* The error leaves uploadWithRetry (lines 168, or 158 when the reconnect
\* throws) and reaches the catch of its caller: lines 237-239 in uploadFiles,
\* lines 259-261 in uploadIndexFile.
Propagate(err) ==
  /\ thrown' = err
  /\ IF phase = "bulk"
     THEN /\ failedSet' = failedSet \cup {cur}
          /\ IF onBulkUploadError = "continue"
             THEN fileIdx' = fileIdx + 1 /\ pc' = "bulk" /\ UNCHANGED failCause
             ELSE Fail("upload") /\ UNCHANGED fileIdx
     ELSE /\ UNCHANGED <<failedSet, fileIdx>>
          /\ IF onIndexUploadError = "throw"
             THEN Fail("index")
             ELSE pc' = "finally" /\ UNCHANGED failCause

\* An upload attempt (line 138) is issued for cur.
IssueAttempt ==
  /\ tried' = tried + 1
  /\ indexStarted' = (indexStarted \/ cur = IndexName)
  /\ entryOps' = IF phase = "index" THEN entryOps + 1 ELSE entryOps

\* Lines 138-139, and lines 230-236 in the bulk loop: the upload succeeds.
\* The server stores a file only in a directory that exists. The keepalive
\* of line 234 is called inside the try of line 227: an error it let through
\* would be caught at line 237 and warned about as the file's failure.
UploadSucceeds ==
  /\ pc = "upload"
  /\ client = "open"
  /\ Parent(cur) = <<>> \/ Parent(cur) \in remoteDirs
  /\ IssueAttempt
  /\ remoteFiles' = remoteFiles \cup {cur}
  /\ uploadCount' = [uploadCount EXCEPT ![cur] = @ + 1]
  /\ lastError' = NoError
  /\ IF phase = "bulk"
     THEN /\ fileCount' = fileCount + 1
          /\ IF (fileCount + 1) % KeepAliveEvery = 0
             THEN \E ok \in BOOLEAN :
                    /\ kaSent' = kaSent \cup {"count"}
                    /\ kaFailed' = IF ok THEN kaFailed
                                   ELSE kaFailed \cup {"count"}
                    /\ failedSet' = IF ok \/ onKeepAliveError = "ignore"
                                    THEN failedSet
                                    ELSE failedSet \cup {cur}
             ELSE UNCHANGED <<kaSent, kaFailed, failedSet>>
          /\ fileIdx' = fileIdx + 1
          /\ pc' = "bulk"
     ELSE /\ UNCHANGED <<fileCount, kaSent, kaFailed, fileIdx, failedSet>>
          /\ pc' = "finally"
  /\ UNCHANGED <<inputVars, faults, remoteDirs, connVars, failCause, outcome,
                 ensureIdx, cleanupVars, scanVars, dirIdx, sinceKeepAlive,
                 phase, cur, attempt, reconnects, thrown, skippedSet>>

\* Lines 140-149 and 167-169: the upload throws err. A closed client throws
\* ClosedError for every operation, and the server refuses a file whose
\* directory does not exist; any other error is a fault of the environment.
UploadFails ==
  /\ pc = "upload"
  /\ IssueAttempt
  /\ IF client = "open" /\ (Parent(cur) = <<>> \/ Parent(cur) \in remoteDirs)
     THEN CanFault /\ Fault
     ELSE UNCHANGED faults
  /\ \E err \in (IF client = "open" THEN Errors ELSE {ClosedError}) :
       /\ lastError' = err
       /\ IF shouldRetry(err, attempt)
          THEN /\ pc' = "rc_close"
               /\ UNCHANGED <<thrown, failedSet, fileIdx, failCause>>
          ELSE Propagate(err)
  /\ UNCHANGED <<inputVars, remoteVars, connVars, outcome, ensureIdx,
                 cleanupVars, scanVars, dirIdx, fileCount, kaSent, kaFailed,
                 sinceKeepAlive, phase, cur, attempt, reconnects, uploadCount,
                 skippedSet>>

\* Lines 152-154: client.close().
ReconnectClose ==
  /\ pc = "rc_close"
  /\ client' = "closed"
  /\ pc' = "rc_wait"
  /\ UNCHANGED <<inputVars, faults, remoteVars, connCfg, cwd, orphans, failCause,
                 outcome, ensureIdx, cleanupVars, scanVars, loopVars,
                 retryVars, historyVars>>

\* Line 156: the 2 s wait.
ReconnectWait ==
  /\ pc = "rc_wait"
  /\ pc' = "rc_connect"
  /\ UNCHANGED <<inputVars, faults, remoteVars, connVars, failCause, outcome,
                 ensureIdx, cleanupVars, scanVars, loopVars, retryVars,
                 historyVars>>

\* A reconnect (line 158) is begun on behalf of cur.
IssueReconnect ==
  /\ reconnects' = reconnects + 1
  /\ entryOps' = IF phase = "index" THEN entryOps + 1 ELSE entryOps

\* Lines 158-166: createFTPClient returns and Object.assign puts the new
\* connection into client; the loop goes to the next attempt. The new
\* connection is in its login directory: no cd is sent on it.
ReconnectOk ==
  /\ pc = "rc_connect"
  /\ IssueReconnect
  /\ client' = "open"
  /\ connCfg' = reconnectParams
  /\ cwd' = 0
  /\ attempt' = attempt + 1
  /\ pc' = "upload"
  /\ UNCHANGED <<inputVars, faults, remoteVars, orphans, failCause, outcome,
                 ensureIdx, cleanupVars, scanVars, loopVars, phase, cur, tried,
                 lastError, thrown, uploadCount, failedSet, skippedSet,
                 indexStarted>>

\* Line 158: createFTPClient throws inside the catch block, and its error
\* leaves uploadWithRetry; client stays closed.
ReconnectFails ==
  /\ pc = "rc_connect"
  /\ CanFault
  /\ Fault
  /\ IssueReconnect
  /\ \E leak \in BOOLEAN : Leak(leak)
  /\ \E err \in Errors : Propagate(err)
  /\ lastError' = NoError
  /\ UNCHANGED <<inputVars, remoteVars, client, connCfg, cwd, outcome,
                 ensureIdx, cleanupVars, scanVars, dirIdx, fileCount, kaSent,
                 kaFailed, sinceKeepAlive, phase, cur, attempt, tried,
                 uploadCount, skippedSet, indexStarted>>

\* Lines 319-328: setFailed when something was thrown, and the finally block.
Finally ==
  /\ pc = "finally"
  /\ client' = IF client = "null" THEN "null" ELSE "closed"
  /\ outcome' = IF failCause = "none" THEN "Done" ELSE "Failed"
  /\ pc' = "done"
  /\ UNCHANGED <<inputVars, faults, remoteVars, connCfg, cwd, orphans, failCause,
                 ensureIdx, cleanupVars, scanVars, loopVars, retryVars,
                 historyVars>>

Next ==
  \/ CheckBuildDir
  \/ ConnectOk
  \/ ConnectFails
  \/ EnsureRemoteDirStep
  \/ CleanupCd
  \/ CleanupList
  \/ CleanupSkip
  \/ CleanupDelete
  \/ CleanupDeleteFails
  \/ CleanupDone
  \/ Scan
  \/ ScanFails
  \/ CreateDir
  \/ CreateDirsDone
  \/ BulkSkip
  \/ BulkStart
  \/ BulkDone
  \/ IndexAbsent
  \/ IndexStart
  \/ UploadSucceeds
  \/ UploadFails
  \/ ReconnectClose
  \/ ReconnectWait
  \/ ReconnectOk
  \/ ReconnectFails
  \/ Finally

Spec == Init /\ [][Next]_vars

\* The same program on the inputs of InitKeepAlive.
SpecKeepAlive == InitKeepAlive /\ [][Next]_vars

\* ------------------------------------------------------------ claims
\* The step issues an upload attempt (line 138) for the file cur'.
AttemptIssued == tried' = tried + 1

\* The non-entry files of the scan.
NonEntryFiles == Range(files) \ {IndexName}

\* The bulk loop is through with f: uploaded, warned about, or skipped.
Processed(f) ==
  \/ uploadCount[f] >= 1 /\ f \in remoteFiles
  \/ f \in failedSet
  \/ f \in skippedSet

\* The call of uploadWithRetry for cur has returned or thrown.
CallOver == tried >= 1 /\ pc \notin {"upload", "rc_close", "rc_wait", "rc_connect"}

\* The upload of the entry document failed: uploadWithRetry threw in
\* uploadIndexFile.
EntryUploadFailed == phase = "index" /\ CallOver /\ thrown # NoError

\* C1: the entry-document upload comes strictly after every non-entry upload
\* attempt of the run, retries included: an attempt for a non-entry file is
\* never issued once an upload of index.html has been issued, and an attempt
\* for index.html is issued only when the bulk loop is over.
C1_EntryDocumentLast ==
  [][AttemptIssued =>
       IF cur' = IndexName
       THEN fileIdx > Len(filesToUpload) /\ phase = "index"
       ELSE ~indexStarted /\ ~indexStarted']_vars

\* A Done run that uploaded its non-entry files, one of them in a
\* subdirectory, and then index.html.
C1_Witness ==
  /\ pc = "done"
  /\ outcome = "Done"
  /\ uploadCount[IndexName] = 1
  /\ Len(filesToUpload) >= 2
  /\ \A f \in NonEntryFiles : uploadCount[f] = 1
  /\ \E f \in NonEntryFiles : Len(f) = 2

\* C2 as stated: when the entry-document upload is issued, every non-entry
\* file of the scan is present on the remote at its mirrored path.
C2_AllLandedBeforeEntry ==
  indexStarted => \A f \in NonEntryFiles : f \in remoteFiles

\* C2 as amended: when the entry-document upload is issued, the bulk loop is
\* through with every non-entry file of the scan (uploaded, or its failure
\* warned about, or skipped as locally missing), and every one whose upload
\* succeeded is present on the remote at its mirrored path.
C2_AllProcessedBeforeEntry ==
  indexStarted =>
    \A f \in NonEntryFiles :
      /\ Processed(f)
      /\ uploadCount[f] >= 1 => f \in remoteFiles

\* The entry document is being uploaded after one non-entry file landed and
\* another failed.
C2_Witness ==
  /\ indexStarted
  /\ pc = "upload"
  /\ \E f \in NonEntryFiles : f \in remoteFiles
  /\ \E f \in NonEntryFiles : f \in failedSet /\ f \notin remoteFiles

\* C3: when the entry-document upload fails, the run ends Failed, even when
\* every non-entry file was uploaded.
C3_EntryFailureFailsRun ==
  EntryUploadFailed =>
    /\ failCause = "index"
    /\ pc = "done" => outcome = "Failed"

\* A finished run whose non-entry files all landed and whose entry-document
\* upload failed.
C3_Witness ==
  /\ pc = "done"
  /\ EntryUploadFailed
  /\ outcome = "Failed"
  /\ NonEntryFiles # {}
  /\ \A f \in NonEntryFiles : uploadCount[f] = 1 /\ f \in remoteFiles

\* C4: a non-entry upload failure never aborts the run: nothing but the entry
\* document can fail it afterwards, the loop goes through every remaining
\* file, the entry-document upload is still attempted, and when that succeeds
\* (or there is no entry document) the run is Done.
C4_BulkFailureAbsorbed ==
  failedSet # {} =>
    /\ failCause \in {"none", "index"}
    /\ pc \in {"index", "finally", "done"} =>
         \A f \in Range(filesToUpload) : Processed(f)
    /\ (pc \in {"finally", "done"} /\ indexFile # NoPath) => indexStarted
    /\ (pc = "done" /\ (indexFile = NoPath \/ uploadCount[IndexName] >= 1)) =>
         outcome = "Done"

\* A Done run in which a non-entry upload failed, a later file was uploaded,
\* and the entry document landed.
C4_Witness ==
  /\ pc = "done"
  /\ outcome = "Done"
  /\ uploadCount[IndexName] = 1
  /\ \E i, j \in 1..Len(filesToUpload) :
       /\ i < j
       /\ filesToUpload[i] \in failedSet
       /\ uploadCount[filesToUpload[j]] = 1

\* C5: when the scan holds no root-level index.html, uploadIndexFile issues no
\* upload and no reconnect, nothing fails the run, and it ends Done.
C5_NoEntryDocument ==
  (scanned /\ IndexName \notin Range(files)) =>
    /\ entryOps = 0
    /\ phase # "index"
    /\ failCause = "none"
    /\ pc = "done" => outcome = "Done"

\* A Done run whose scan held files, none of them the root-level index.html.
C5_Witness ==
  /\ pc = "done"
  /\ outcome = "Done"
  /\ scanned
  /\ IndexName \notin Range(files)
  /\ \E f \in Range(files) : f[Len(f)] = "index.html" /\ uploadCount[f] = 1

\* The step issues an attempt that follows an earlier attempt of the same call.
RetryIssued == AttemptIssued /\ tried >= 1

\* The step issues an attempt and the attempt throws.
AttemptFailed == AttemptIssued /\ uploadCount' = uploadCount

\* The connection-class errors as the claims list them: connection reset,
\* connection closed, operation timeout, status 421.
ListedConnectionClass(error) ==
  \/ error.message \in {"ECONNRESET", "closed", "Timeout"}
  \/ error.code = 421

\* The errors line 142-147 classify as connection errors: the listed ones and
\* a message that includes QUIT.
RetriedConnectionClass(error) ==
  \/ ListedConnectionClass(error)
  \/ error.message = "QUIT"

\* C6 as stated: an attempt is followed by another attempt of the same upload
\* only if it failed with a connection-class error (reset, closed, timeout,
\* 421) and fewer than 3 attempts were made; at most 3 attempts and 2
\* reconnects per call; any other error causes no retry and no reconnect; in
\* both terminal cases the error reaches the caller.
C6_RetryOnlyListedErrors ==
  [][/\ RetryIssued => ListedConnectionClass(lastError) /\ tried < 3
     /\ tried' <= 3 /\ reconnects' <= 2
     /\ (AttemptFailed /\ ~ListedConnectionClass(lastError')) =>
          pc' # "rc_close"
     /\ (AttemptFailed /\ pc' # "rc_close") =>
          thrown' = lastError' /\ thrown' # NoError]_vars

\* C6 as amended: the same, with the connection class the code retries on:
\* a message including ECONNRESET, closed, Timeout or QUIT, or code 421.
C6_RetryOnlyConnectionErrors ==
  [][/\ RetryIssued => RetriedConnectionClass(lastError) /\ tried < 3
     /\ tried' <= 3 /\ reconnects' <= 2
     /\ (AttemptFailed /\ ~RetriedConnectionClass(lastError')) =>
          pc' # "rc_close"
     /\ (AttemptFailed /\ pc' # "rc_close") =>
          thrown' = lastError' /\ thrown' # NoError]_vars

\* A bulk upload gave up after three attempts and two reconnects, and its
\* connection-class error reached uploadFiles.
C6_Witness ==
  /\ pc = "bulk"
  /\ tried = 3
  /\ reconnects = 2
  /\ RetriedConnectionClass(thrown)
  /\ thrown = lastError
  /\ cur \in failedSet

\* The order of the reconnect steps between a failed attempt and its retry.
ReconnectOrder ==
  /\ (pc' = "rc_close" /\ pc # "rc_close") =>
       AttemptFailed /\ attempt < maxRetries
  /\ (pc' = "rc_wait" /\ pc # "rc_wait") =>
       pc = "rc_close" /\ client' = "closed"
  /\ (pc' = "rc_connect" /\ pc # "rc_connect") =>
       pc = "rc_wait" /\ client = "closed"
  /\ RetryIssued => reconnects = tried /\ client = "open" /\ cur' = cur

\* C7 as stated: close, wait, reconnect with the original parameters, restore
\* the working directory to the remote root, and only then retry.
C7_ReconnectRestoresDirectory ==
  [][/\ ReconnectOrder
     /\ (pc = "rc_connect" /\ pc' = "upload") =>
          client' = "open" /\ connCfg' = accessParams /\ cwd' = RootDepth
     /\ RetryIssued => cwd = RootDepth]_vars

\* C7 as amended: close, wait, reconnect with the original parameters, then
\* retry the same upload at its absolute remote path; no change of directory
\* is sent on the new connection, which stays in its login directory.
C7_ReconnectThenRetry ==
  [][/\ ReconnectOrder
     /\ (pc = "rc_connect" /\ pc' = "upload") =>
          client' = "open" /\ connCfg' = accessParams /\ cwd' = 0
     /\ RetryIssued => cwd = 0
     /\ (RetryIssued /\ ~AttemptFailed) => cur \in remoteFiles']_vars

\* A retry is about to be issued on the new connection.
C7_Witness ==
  /\ pc = "upload"
  /\ tried >= 1
  /\ reconnects = tried
  /\ client = "open"
  /\ connCfg = accessParams
  /\ cwd = 0

\* C8: when an attempt failed with a connection-class error and the attempt
\* after the reconnect succeeded, each failed attempt had exactly one
\* reconnect, the file has exactly one successful upload, and the run has not
\* failed; no file is ever uploaded twice.
C8_RetrySucceedsOnce ==
  /\ \A f \in AllPaths : uploadCount[f] <= 1
  /\ (CallOver /\ thrown = NoError /\ tried >= 2) =>
       /\ reconnects = tried - 1
       /\ uploadCount[cur] = 1
       /\ cur \in remoteFiles
       /\ cur \notin failedSet
       /\ failCause = "none"
       /\ pc = "done" => outcome = "Done"

\* A Done run whose last upload failed once, reconnected once and succeeded.
C8_Witness ==
  /\ pc = "done"
  /\ outcome = "Done"
  /\ thrown = NoError
  /\ tried = 2
  /\ reconnects = 1
  /\ uploadCount[cur] = 1

\* The names of the listing of line 48.
Listed == { list[i].name : i \in 1..Len(list) }

\* The name matches an exclusion rule: equal to it, or beneath it.
MatchesRule(n) ==
  \E e \in exclusions :
    \/ <<n>> = e
    \/ Len(e) < 1 /\ SubSeq(<<n>>, 1, Len(e)) = e

\* The top-level children of the remote root.
TopLevel == { p[1] : p \in remoteFiles \cup remoteDirs }

\* C9: after cleanup, every listed child that matches the exclusions is
\* present and was never the target of a delete, every other listed child was
\* the target of exactly one delete (removeDir for a directory, remove for a
\* file), and the surviving top-level contents are the excluded children plus
\* those whose delete failed.
C9_CleanupDeletesUnprotected ==
  pc = "scan" =>
    /\ \A i \in 1..Len(list) :
         IF MatchesRule(list[i].name)
         THEN /\ list[i].name \in TopLevel
              /\ delCount[list[i].name] = 0
         ELSE /\ delCount[list[i].name] = 1
              /\ delKind[list[i].name] =
                   IF list[i].isDirectory THEN "removeDir" ELSE "remove"
    /\ TopLevel = { n \in Listed : MatchesRule(n) } \cup delFailed

\* Cleanup is over: an excluded child was kept, a directory was removed and
\* the delete of a file failed.
C9_Witness ==
  /\ pc = "scan"
  /\ \E n \in Listed : MatchesRule(n)
  /\ \E n \in Listed : delKind[n] = "removeDir" /\ n \notin TopLevel
  /\ \E n \in Listed : delKind[n] = "remove" /\ n \in delFailed

\* C10: a failed delete does not stop cleanup (every listed item that is not
\* excluded gets its delete, and the run goes on to the upload phase), while a
\* failure to enter or list the remote directory ends the run Failed with no
\* delete and no upload issued.
C10_CleanupFailures ==
  /\ delFailed # {} =>
       /\ failCause \in {"none", "scan", "index"}
       /\ pc # "cleanup_loop" =>
            /\ \A n \in Listed : ~MatchesRule(n) => delCount[n] = 1
            /\ pc \in {"scan", "mkdirs", "bulk", "upload", "rc_close",
                       "rc_wait", "rc_connect", "index", "finally", "done"}
  /\ failCause = "cleanup" =>
       /\ \A n \in TopNames : delCount[n] = 0
       /\ ~scanned
       /\ tried = 0
       /\ \A f \in AllPaths : uploadCount[f] = 0
       /\ pc = "done" => outcome = "Failed"

\* The upload phase has begun after a delete failed and a later listed item
\* was deleted.
C10_Witness ==
  /\ pc = "mkdirs"
  /\ \E i, j \in 1..Len(list) :
       /\ i < j
       /\ list[i].name \in delFailed
       /\ list[j].name \notin delFailed
       /\ delCount[list[j].name] = 1
       /\ list[j].name \notin TopLevel

\* C11 as stated: no remote path that equals an exclusion rule or lies beneath
\* one is removed by cleanup or is the target of an upload of the run.
C11_ExcludedPathsUntouched ==
  \A p \in AllPaths :
    shouldExclude(p, exclusions) =>
      /\ p \notin removed
      /\ uploadCount[p] = 0
      /\ cur # p

\* The physical connections of the run that are open: the one client holds,
\* and the sockets failed createFTPClient calls left behind.
OpenConnections == (IF client = "open" THEN 1 ELSE 0) + orphans

\* C12 as stated: in every terminal state of a run, Done or Failed, no
\* connection the run opened is still open.
C12_ConnectionReleased ==
  pc = "done" => OpenConnections = 0

\* C13 as stated: in every reachable state at most one physical connection
\* of the run is open.
C13_AtMostOneConnection ==
  OpenConnections <= 1

\* A file named index.html that is not at the root.
NestedIndex(f) == Len(f) > 1 /\ f[Len(f)] = "index.html"

\* C14: only the file whose relative path is exactly index.html is the entry
\* document: indexFile is that path or undefined, at most one file of the scan
\* is kept out of the bulk loop, every other file (a nested index.html too) is
\* in filesToUpload, and an upload attempt for a nested index.html is issued
\* in the bulk phase, before any upload of the entry document.
C14_OnlyRootIndexIsEntry ==
  [][/\ scanned' =>
          /\ indexFile' \in {NoPath, IndexName}
          /\ indexFile' = IndexName <=> IndexName \in Range(files')
          /\ Len(files') - Len(filesToUpload') <= 1
          /\ Range(filesToUpload') = Range(files') \ {IndexName}
     /\ (AttemptIssued /\ NestedIndex(cur')) =>
          /\ phase = "bulk"
          /\ ~indexStarted']_vars

\* A Done run on a tree with index.html and sub/index.html: both uploaded, the
\* nested one by the bulk loop.
C14_Witness ==
  /\ pc = "done"
  /\ outcome = "Done"
  /\ <<"sub", "index.html">> \in Range(filesToUpload)
  /\ uploadCount[<<"sub", "index.html">>] = 1
  /\ indexFile = IndexName
  /\ uploadCount[IndexName] = 1

\* C15 as stated: the remote entry document is never removed before the
\* entry-document upload; cleanup, the only phase that deletes, leaves it.
C15_EntryDocumentKept ==
  /\ IndexName \notin removed
  /\ ~indexStarted => uploadCount[IndexName] = 0

\* The step issues a delete of cleanup (lines 61 and 64).
DeleteIssued == delCount' # delCount

\* The step calls createDirectoryRecursive in uploadFiles (line 201).
CreateIssued == dirIdx' = dirIdx + 1

\* The calls of createDirectoryRecursive issued so far for directory d.
CreatesIssued(d) == Cardinality({ i \in 1..(dirIdx - 1) : allDirs[i] = d })

NoDeleteYet == \A n \in TopNames : delCount[n] = 0
NoCreateYet == dirIdx = 1
NoUploadYet == cur = NoPath /\ \A p \in AllPaths : uploadCount[p] = 0

\* C16: the remote operations come in phase order. A step of ensureRemoteDir
\* comes before every delete, directory creation and upload; a delete of
\* cleanup comes after the root is entered and before every directory creation
\* and upload; a directory creation comes after the cleanup loop and before
\* every upload; when an upload attempt is issued, createDirectoryRecursive
\* has been called exactly once for the parent directory of every file of
\* filesToUpload that has one; and once something was thrown into the catch
\* of run() no delete, directory creation or upload is issued and the remote
\* does not change.
C16_PhaseOrder ==
  [][/\ pc = "ensure" => NoDeleteYet /\ NoCreateYet /\ NoUploadYet
     /\ DeleteIssued =>
          /\ ensureIdx > RootDepth
          /\ ~scanned /\ NoCreateYet /\ NoUploadYet
     /\ CreateIssued =>
          /\ ensureIdx > RootDepth
          /\ listIdx > Len(list)
          /\ NoUploadYet
     /\ AttemptIssued =>
          /\ dirIdx > Len(allDirs)
          /\ \A f \in Range(filesToUpload) :
               Parent(f) # <<>> => CreatesIssued(Parent(f)) = 1
     /\ failCause # "none" =>
          /\ ~DeleteIssued /\ ~CreateIssued /\ ~AttemptIssued
          /\ pc # "ensure"
          /\ UNCHANGED remoteVars]_vars

\* A Done run that deleted remote items, then created the one parent directory
\* two files share with a single call, then uploaded both files.
C16_Witness ==
  /\ pc = "done"
  /\ outcome = "Done"
  /\ \E n \in TopNames : delCount[n] >= 1
  /\ \E f, g \in Range(filesToUpload) :
       /\ f # g
       /\ Parent(f) # <<>>
       /\ Parent(f) = Parent(g)
       /\ CreatesIssued(Parent(f)) = 1
       /\ uploadCount[f] = 1
       /\ uploadCount[g] = 1

\* C17: the scan prunes at excluded paths. No path that an exclusion rule
\* matches (an excluded directory, or anything beneath one) is given to
\* fs.statSync or fs.readdirSync, is in the scan result, or is uploaded; and
\* every regular file of the tree that no rule matches is in the result
\* exactly once, the result holding nothing else.
C17_ScanPrunesExcluded ==
  scanned =>
    /\ \A p \in statted \cup readDirs : ~shouldExclude(p, exclusions)
    /\ \A p \in AllPaths :
         shouldExclude(p, exclusions) =>
           /\ p \notin Range(files)
           /\ uploadCount[p] = 0
    /\ \A f \in local :
         ~shouldExclude(f, exclusions) =>
           Cardinality({ i \in 1..Len(files) : files[i] = f }) = 1
    /\ Range(files) \subseteq local

\* A finished run whose tree has the excluded directory uploads with a file
\* in it: the scan descended into sub, never touched uploads, and the files
\* outside uploads were uploaded.
C17_Witness ==
  /\ pc = "done"
  /\ <<"uploads">> \in exclusions
  /\ <<"uploads", "keep.dat">> \in local
  /\ <<"sub">> \in statted
  /\ <<"sub">> \in readDirs
  /\ <<"sub", "index.html">> \in statted
  /\ <<"uploads">> \notin statted
  /\ files = << <<"index.html">>, <<"sub", "index.html">> >>
  /\ \A f \in Range(files) : uploadCount[f] = 1

\* C19: a run started on a build directory that does not exist opens no
\* connection and issues no remote operation: no step of it changes the
\* client, the sockets or the remote tree, or issues a delete, a directory
\* creation or an upload, and it ends Failed on the check of line 297.
C19_MissingBuildDir ==
  [][~buildDirExists =>
       /\ client' = "null" /\ orphans' = 0
       /\ UNCHANGED <<remoteVars, connVars, removed>>
       /\ pc # "ensure"
       /\ ~DeleteIssued /\ ~CreateIssued /\ ~AttemptIssued
       /\ pc' = "done" => outcome' = "Failed" /\ failCause' = "builddir"]_vars

\* A finished run on a missing build directory, with files on the remote root
\* that were left alone.
C19_Witness ==
  /\ pc = "done"
  /\ ~buildDirExists
  /\ outcome = "Failed"
  /\ failCause = "builddir"
  /\ client = "null"
  /\ <<"old.txt">> \in remoteFiles

\* The step is a reconnect (line 158) whose createFTPClient throws.
ReconnectThrew == pc = "rc_connect" /\ pc' # "upload"

\* C20: a reconnect that throws while a non-entry file is retried leaves the
\* client closed and is that file's failure only: the file is warned about and
\* the bulk loop goes to the next file, nothing reaching the catch of run().
\* The same throw during the entry-document upload fails the run. An upload
\* attempt on the closed client fails with a connection-class error and, with
\* attempts left, leads to a fresh reconnect.
C20_ReconnectFailure ==
  [][/\ ReconnectThrew =>
          /\ client' = "closed"
          /\ IF phase = "bulk"
             THEN /\ cur \in failedSet'
                  /\ pc' = "bulk"
                  /\ fileIdx' = fileIdx + 1
                  /\ failCause' = "none"
             ELSE /\ failCause' = "index"
                  /\ pc' = "finally"
     /\ (AttemptIssued /\ client = "closed") =>
          /\ UNCHANGED <<uploadCount, remoteFiles>>
          /\ isConnectionError(lastError')
          /\ attempt < maxRetries => pc' = "rc_close"]_vars

\* A Done run in which the reconnect for a.txt threw (it left its socket
\* behind), a.txt was warned about, and the later sub/b.txt and then
\* index.html were uploaded after a reconnect that worked.
C20_Witness ==
  /\ pc = "done"
  /\ outcome = "Done"
  /\ orphans = 1
  /\ failedSet = { <<"a.txt">> }
  /\ uploadCount[<<"a.txt">>] = 0
  /\ uploadCount[<<"sub", "b.txt">>] = 1
  /\ uploadCount[IndexName] = 1

\* The step starts the upload of the next file of the bulk loop (lines
\* 221-229): the file is there, the clock is read, uploadWithRetry is called.
UploadStarted ==
  pc = "bulk" /\ fileIdx <= Len(filesToUpload) /\ fileIdx' = fileIdx

\* The step is a successful upload of the bulk loop.
BulkUploadSucceeded ==
  AttemptIssued /\ ~AttemptFailed /\ phase = "bulk"

\* A keepalive issued in the step threw.
KeepAliveFailed ==
  \/ UploadStarted /\ "timer" \in kaFailed'
  \/ BulkUploadSucceeded /\ "count" \in kaFailed'

\* C18: in the bulk loop a keepalive is issued before an upload whenever the
\* clock shows more than 30 s since the last keepalive; fileCount counts the
\* files uploaded with success, and a keepalive follows a successful upload
\* exactly when that count is a multiple of 10; a failed attempt, a failed
\* reconnect or a skipped file neither counts nor issues a keepalive; and a
\* keepalive that throws changes nothing: the upload it precedes is started,
\* the upload it follows stays a success, nothing is warned about and nothing
\* reaches the catch of run().
C18_KeepAlive ==
  [][/\ (UploadStarted /\ sinceKeepAlive' > KeepAliveAfterMs) =>
          "timer" \in kaSent'
     /\ phase' = "bulk" =>
          fileCount' = Cardinality({ f \in Range(filesToUpload') :
                                       uploadCount'[f] >= 1 })
     /\ BulkUploadSucceeded =>
          /\ fileCount' = fileCount + 1
          /\ "count" \in kaSent' <=> fileCount' % KeepAliveEvery = 0
     /\ (phase = "bulk" /\ ~UploadStarted /\ ~BulkUploadSucceeded) =>
          UNCHANGED <<fileCount, kaSent>>
     /\ KeepAliveFailed =>
          /\ UNCHANGED <<failCause, failedSet, client>>
          /\ UploadStarted =>
               /\ pc' = "upload"
               /\ cur' = filesToUpload[fileIdx]
               /\ tried' = 0
          /\ BulkUploadSucceeded =>
               /\ pc' = "bulk"
               /\ fileIdx' = fileIdx + 1
               /\ cur \in remoteFiles']_vars

\* A Done run on the large tree in which one file failed, so that the tenth
\* successful upload was the eleventh file: the timer keepalive before it and
\* the count keepalive after it both threw, and the entry document was
\* uploaded all the same.
C18_Witness ==
  /\ pc = "done"
  /\ outcome = "Done"
  /\ local = KeepAliveTree
  /\ fileCount = KeepAliveEvery
  /\ Cardinality(failedSet) = 1
  /\ kaSent = {"timer", "count"}
  /\ kaFailed = {"timer", "count"}
  /\ sinceKeepAlive > KeepAliveAfterMs
  /\ uploadCount[<<"sub", "b.txt">>] = 1
  /\ uploadCount[IndexName] = 1

====
